---- MODULE Spec2Model ----
(***************************************************************************)
(* Battery digital twin: the MQTT listener of cloud_listener.py, which     *)
(* buffers the telemetry of the running discharge cycle and, when the      *)
(* cycle id changes, reduces the buffer to three features, asks the        *)
(* capacity model for a prediction and reports the State of Health.        *)
(*                                                                         *)
(* Python floats are modelled as exact rationals <<num, den>> in lowest    *)
(* terms with den > 0; NaN is <<0, 0>>.                                    *)
(***************************************************************************)
EXTENDS Integers, Sequences, FiniteSets, TLC

VARIABLES
    current_cycle_data, \* cloud_listener.py:56  buffer of the running cycle
    last_cycle_id,      \* cloud_listener.py:59  id of the running cycle, or None
    diagnoses,          \* the "DIAGNOSIS COMPLETED" blocks printed so far
    alerts,             \* the lines send_alert has printed so far
    predict_calls,      \* the feature rows handed to model.predict so far
    listening,          \* client.loop_forever() is still running
    received,           \* history: every MQTT message handed to on_message
    latest,             \* history: what the latest on_message found and did
    outcome,            \* history: how the latest on_message ended
    health_history,     \* api_server.py: the rows of table health_history
    response,           \* api_server.py: what the latest GET /forecast returned
    divided,            \* history: the divisions the latest GET /forecast made
    classified,         \* a SoH value, and what the dashboard and send_alert make of it
    inbox,              \* messages the client has taken from the broker, not yet handled
    handling,           \* the calls of on_message in progress, and where each stands
    evaluations,        \* history: the evaluations completed statement by statement
    data,               \* battery_streamer.py: the entries loaded from the data file
    cursor,             \* battery_streamer.py: cycle_idx and i of the two loops
    sent                \* battery_streamer.py: the payloads published so far

vars == <<current_cycle_data, last_cycle_id, diagnoses, alerts, predict_calls,
          listening, received, latest, outcome,
          health_history, response, divided, classified,
          inbox, handling, evaluations, data, cursor, sent>>

\* The state of the listener process, of the API server, and of the status display.
listener_vars == <<current_cycle_data, last_cycle_id, diagnoses, alerts, predict_calls,
                   listening, received, latest, outcome>>
api_vars == <<health_history, response, divided>>
loop_vars == <<inbox, handling, evaluations>>
streamer_vars == <<data, cursor, sent>>

----------------------------------------------------------------------------
(* Bounds of the model *)

\* Messages delivered to the listener in one run.
MaxMsgs == 3

\* Cycle ids a payload may carry.
CycleIds == {0, 1, 2}

\* Measurement indices a payload may carry.
Steps == {0}

----------------------------------------------------------------------------
(* Float arithmetic *)

NaN == <<0, 0>>

Abs(x) == IF x < 0 THEN -x ELSE x

RECURSIVE GCD(_, _)
GCD(a, b) == IF b = 0 THEN a ELSE GCD(b, a % b)

Norm(f) ==
    IF f[2] = 0 THEN NaN
    ELSE LET s == IF f[2] < 0 THEN -1 ELSE 1
             g == GCD(Abs(f[1]), Abs(f[2]))
         IN  <<(s * f[1]) \div g, (s * f[2]) \div g>>

Float(n, d) == Norm(<<n, d>>)

IsFinite(f) == f[2] # 0

FAdd(a, b) == Norm(<<a[1] * b[2] + b[1] * a[2], a[2] * b[2]>>)
FSub(a, b) == Norm(<<a[1] * b[2] - b[1] * a[2], a[2] * b[2]>>)
FMul(a, b) == Norm(<<a[1] * b[1], a[2] * b[2]>>)
FDiv(a, b) == Norm(<<a[1] * b[2], a[2] * b[1]>>)
FAbs(a)    == <<Abs(a[1]), a[2]>>

\* Comparisons with NaN are false, as in Python.
FLt(a, b) == IsFinite(a) /\ IsFinite(b) /\ a[1] * b[2] < b[1] * a[2]
FLe(a, b) == IsFinite(a) /\ IsFinite(b) /\ a[1] * b[2] <= b[1] * a[2]
FGt(a, b) == FLt(b, a)
FGe(a, b) == FLe(b, a)

\* int(x): the integer part, towards zero.
Trunc(a) == IF a[1] >= 0 THEN a[1] \div a[2] ELSE -((-a[1]) \div a[2])

\* round(x, 4): to the nearest multiple of 0.0001, a tie to the even one.
Round4(a) ==
    LET n == a[1] * 10000
        q == n \div a[2]
        r == n - q * a[2]
        up == 2 * r > a[2] \/ (2 * r = a[2] /\ q % 2 = 1)
    IN  Float(IF up THEN q + 1 ELSE q, 10000)

----------------------------------------------------------------------------
(* battery_streamer.py: the payload the vehicle simulator publishes *)

\* Rows of the dataset: voltage (V), signed current (A), temperature, time (s).
Readings ==
    { [Voltage_measured |-> Float(4, 1), Current_measured |-> Float(-2, 1),
       Temperature_measured |-> Float(24, 1), Time |-> Float(0, 1)],
      [Voltage_measured |-> Float(3, 1), Current_measured |-> Float(-2, 1),
       Temperature_measured |-> Float(25, 1), Time |-> Float(10, 1)],
      [Voltage_measured |-> Float(3, 1), Current_measured |-> Float(-1, 100),
       Temperature_measured |-> Float(26, 1), Time |-> Float(20, 1)] }

\* "current > 0.01" of battery_streamer.py:154
NoiseFloor == Float(1, 100)

\* Variant: the test is "current >= 0.01".
Resistance_AtFloor(voltage, current) ==
    IF FGe(current, NoiseFloor) THEN FDiv(voltage, current) ELSE Float(0, 1)

Resistance(voltage, current) ==
    IF FGt(current, NoiseFloor) THEN FDiv(voltage, current) ELSE Float(0, 1)

\* Variant: the current keeps its sign.
Payload_Signed(cycle_idx, i, row) ==
    LET voltage == row.Voltage_measured
        current == row.Current_measured
    IN  [cycle_id            |-> cycle_idx,
         step                |-> i,
         voltage             |-> voltage,
         current             |-> current,
         internal_resistance |-> Resistance(voltage, current),
         temp                |-> row.Temperature_measured,
         timestamp_s         |-> row.Time]

Payload(cycle_idx, i, row) ==
    LET voltage == row.Voltage_measured
        current == FAbs(row.Current_measured)
    IN  [cycle_id            |-> cycle_idx,
         step                |-> i,
         voltage             |-> voltage,
         current             |-> current,
         internal_resistance |-> Resistance(voltage, current),
         temp                |-> row.Temperature_measured,
         timestamp_s         |-> row.Time]

\* json.dumps of a payload, as the bytes of one MQTT message.
JsonDumps(obj) == [json |-> TRUE, obj |-> obj]

\* Bytes that are no JSON document.
Garbage == [json |-> FALSE]

\* The messages a simulator can publish.
Published == { JsonDumps(Payload(c, i, r)) : c \in CycleIds, i \in Steps, r \in Readings }

\* A payload without the given key.
Without(obj, key) == [k \in DOMAIN obj \ {key} |-> obj[k]]

\* Messages no simulator publishes: undecodable bytes, a payload without
\* cycle_id, a payload without voltage.
Malformed ==
    {Garbage}
    \cup { JsonDumps(Without(Payload(0, 0, r), "cycle_id")) : r \in Readings }
    \cup { JsonDumps(Without(Payload(c, 0, r), "voltage")) : c \in CycleIds, r \in Readings }

----------------------------------------------------------------------------
(* cloud_listener.py *)

None == -1

REFERENCE_CAPACITY == Float(185, 100)

CRITICAL_SOH_THRESHOLD == Float(80, 1)

\* What model.predict can do with one feature row: return a capacity (Ah),
\* return a non-finite value, or raise.
Returns(capacity) == [raises |-> FALSE, value |-> capacity]
Raises == [raises |-> TRUE]

Capacities == {Float(185, 100), Float(160, 100), Float(148, 100)}

ModelWorks == { Returns(c) : c \in Capacities }
ModelFails == { Returns(NaN), Raises }

\* json.loads(msg.payload.decode()) raises on bytes that are no JSON document.
Decodes(msg) == msg.json
JsonLoads(msg) == msg.obj

\* Variant: the critical test is "soh < CRITICAL_SOH_THRESHOLD".
send_alert_Strict(soh) ==
    IF FLt(soh, CRITICAL_SOH_THRESHOLD)
    THEN <<[level |-> "ALERT", soh |-> soh]>>
    ELSE IF FLt(soh, FAdd(CRITICAL_SOH_THRESHOLD, Float(10, 1)))
         THEN <<[level |-> "WARNING", soh |-> soh]>>
         ELSE <<>>

\* Variant: no warning branch.
send_alert_CriticalOnly(soh) ==
    IF FLe(soh, CRITICAL_SOH_THRESHOLD)
    THEN <<[level |-> "ALERT", soh |-> soh]>>
    ELSE <<>>

\* send_alert: the line it prints, or <<>> when it prints nothing.
send_alert(soh) ==
    IF FLe(soh, CRITICAL_SOH_THRESHOLD)
    THEN <<[level |-> "ALERT", soh |-> soh]>>
    ELSE IF FLt(soh, FAdd(CRITICAL_SOH_THRESHOLD, Float(10, 1)))
         THEN <<[level |-> "WARNING", soh |-> soh]>>
         ELSE <<>>

\* pd.DataFrame(list of dicts): a column exists when some row has the key.
HasColumn(df, key) == \E i \in 1..Len(df) : key \in DOMAIN df[i]

\* The cells of a column that are not NaN (a row without the key gives NaN).
RECURSIVE Cells(_, _)
Cells(df, key) ==
    IF df = <<>> THEN <<>>
    ELSE LET rest == Cells(Tail(df), key)
         IN  IF key \in DOMAIN Head(df) THEN <<Head(df)[key]>> \o rest ELSE rest

RECURSIVE Sum(_)
Sum(s) == IF s = <<>> THEN Float(0, 1) ELSE FAdd(Head(s), Sum(Tail(s)))

\* Series.mean(): NaN cells are skipped.
Mean(df, key) ==
    LET cells == Cells(df, key)
    IN  FDiv(Sum(cells), Float(Len(cells), 1))

\* Series.iloc[i] (1-based here): NaN for a row without the key.
ILoc(df, key, i) == IF key \in DOMAIN df[i] THEN df[i][key] ELSE NaN

\* Whether the feature engineering of lines 131-139 raises KeyError.
FeaturesRaise(df) ==
    \/ ~HasColumn(df, "internal_resistance")
    \/ ~HasColumn(df, "voltage")
    \/ ~HasColumn(df, "timestamp_s")

avg_res(df) == Mean(df, "internal_resistance")
avg_v(df) == Mean(df, "voltage")
\* Variant: the time of the last sample, the first not subtracted.
duration_LastOnly(df) == ILoc(df, "timestamp_s", Len(df))

duration(df) == FSub(ILoc(df, "timestamp_s", Len(df)), ILoc(df, "timestamp_s", 1))

\* Variant: the last two features change places.
input_features_Swapped(df) == <<avg_res(df), avg_v(df), duration(df)>>

\* np.array([[avg_res, duration, avg_v]])
input_features(df) == <<avg_res(df), duration(df), avg_v(df)>>

soh_ai(prediction) == FMul(FDiv(prediction, REFERENCE_CAPACITY), Float(100, 1))

\* Variant: the SoH is lowered by the number of the cycle.
Diagnosis_Drifting(cycle, df, prediction) ==
    [cycle_id   |-> cycle,
     prediction |-> prediction,
     soh        |-> FSub(soh_ai(prediction), Float(cycle, 1)),
     avg_res    |-> avg_res(df),
     duration   |-> duration(df)]

\* Lines 155-162: the SoH and the diagnosis printed for a cycle.
Diagnosis(cycle, df, prediction) ==
    [cycle_id   |-> cycle,
     prediction |-> prediction,
     soh        |-> soh_ai(prediction),
     avg_res    |-> avg_res(df),
     duration   |-> duration(df)]

\* Variants of the boundary test: only a larger id counts; every message counts.
CycleChanged_OnlyForward(last, cycle_id) == last # None /\ cycle_id > last
CycleChanged_Always(last, cycle_id) == last # None

\* "last_cycle_id is not None and cycle_id != last_cycle_id"
CycleChanged(last, cycle_id) == last # None /\ cycle_id # last

\* Variant: a buffer of one measurement is not evaluated.
ShouldEvaluate_MoreThanOne(buffer) == Len(buffer) > 1

\* "len(current_cycle_data) > 0"
ShouldEvaluate(buffer) == Len(buffer) > 0

\* Variant: the diagnosis names the cycle that has just started.
DiagnosedCycle_New(last, cycle_id) == cycle_id

\* The cycle the diagnosis block names (line 158).
DiagnosedCycle(last, cycle_id) == last

\* Variant: the buffer is not reset at a boundary.
BufferForAppend_NoReset(last, cycle_id, buffer) == buffer

\* The buffer the current measurement is appended to.
BufferForAppend(last, cycle_id, buffer) ==
    IF CycleChanged(last, cycle_id) THEN <<>> ELSE buffer

\* Variant: last_cycle_id is assigned inside the boundary branch only.
NextLastCycleId_InBranch(last, cycle_id) ==
    IF CycleChanged(last, cycle_id) THEN cycle_id ELSE last

\* The value last_cycle_id takes at the end of the handler.
NextLastCycleId(last, cycle_id) == cycle_id

\* An exception leaves on_message: nothing after the raising line runs, and it
\* leaves client.loop_forever() too, which ends the listener.
Escapes ==
    /\ listening' = FALSE
    /\ outcome' = "raised"
    /\ UNCHANGED <<current_cycle_data, last_cycle_id, diagnoses, alerts>>

\* History: the state on_message was entered with, and the call of model.predict
\* it made, if any.
NotCalled == [called |-> FALSE]
Called(est) == [called |-> TRUE, result |-> est]

Found(predict) ==
    [last_cycle_id      |-> last_cycle_id,
     current_cycle_data |-> current_cycle_data,
     n_diagnoses        |-> Len(diagnoses),
     n_alerts           |-> Len(alerts),
     n_predict_calls    |-> Len(predict_calls),
     predict            |-> predict]

PredictCalled(msg, est) ==
    IF /\ Decodes(msg)
       /\ "cycle_id" \in DOMAIN JsonLoads(msg)
       /\ CycleChanged(last_cycle_id, JsonLoads(msg).cycle_id)
       /\ ShouldEvaluate(current_cycle_data)
       /\ ~FeaturesRaise(current_cycle_data)
    THEN Called(est)
    ELSE NotCalled

\* An exception leaves send_alert: the diagnosis is printed, the alert is not,
\* and lines 168-172 do not run.
AlertEscapes ==
    /\ listening' = FALSE
    /\ outcome' = "raised"
    /\ UNCHANGED <<current_cycle_data, last_cycle_id, alerts>>

\* on_message for one message; est is what model.predict does if it is called,
\* alert_ok whether the print of send_alert succeeds if it prints.
on_message(msg, est, alert_ok) ==
    /\ listening
    /\ Len(received) < MaxMsgs
    /\ received' = Append(received, msg)
    /\ latest' = Found(PredictCalled(msg, est))
    /\ IF ~Decodes(msg) \/ "cycle_id" \notin DOMAIN JsonLoads(msg)
       THEN Escapes /\ UNCHANGED predict_calls
       ELSE
         LET payload  == JsonLoads(msg)
             cycle_id == payload.cycle_id
             df_temp  == current_cycle_data
             evaluate == CycleChanged(last_cycle_id, cycle_id)
                         /\ ShouldEvaluate(current_cycle_data)
         IN  IF evaluate /\ FeaturesRaise(df_temp)
             THEN Escapes /\ UNCHANGED predict_calls
             ELSE IF evaluate /\ est.raises
             THEN /\ Escapes
                  /\ predict_calls' = Append(predict_calls, input_features(df_temp))
             ELSE IF evaluate /\ send_alert(soh_ai(est.value)) # <<>> /\ ~alert_ok
             THEN /\ AlertEscapes
                  /\ predict_calls' = Append(predict_calls, input_features(df_temp))
                  /\ diagnoses' = Append(diagnoses,
                         Diagnosis(DiagnosedCycle(last_cycle_id, cycle_id),
                                   df_temp, est.value))
             ELSE
               /\ IF evaluate
                  THEN /\ predict_calls' = Append(predict_calls, input_features(df_temp))
                       /\ diagnoses' = Append(diagnoses,
                              Diagnosis(DiagnosedCycle(last_cycle_id, cycle_id),
                                        df_temp, est.value))
                       /\ alerts' = alerts \o send_alert(soh_ai(est.value))
                  ELSE UNCHANGED <<predict_calls, diagnoses, alerts>>
               /\ current_cycle_data' =
                      Append(BufferForAppend(last_cycle_id, cycle_id, current_cycle_data),
                             payload)
               /\ last_cycle_id' = NextLastCycleId(last_cycle_id, cycle_id)
               /\ listening' = TRUE
               /\ outcome' = "returned"
    /\ UNCHANGED <<api_vars, classified, loop_vars, streamer_vars>>

\* The listener process after the module has been loaded.
InitListener ==
    /\ current_cycle_data = <<>>
    /\ last_cycle_id = None
    /\ diagnoses = <<>>
    /\ alerts = <<>>
    /\ predict_calls = <<>>
    /\ listening = TRUE
    /\ received = <<>>
    /\ latest = [last_cycle_id |-> None, current_cycle_data |-> <<>>, n_diagnoses |-> 0,
                 n_alerts |-> 0, n_predict_calls |-> 0, predict |-> NotCalled]
    /\ outcome = "none"
    /\ inbox = <<>>
    /\ handling = <<>>
    /\ evaluations = <<>>

\* The simulator has not been started.
NotStreaming ==
    /\ data = <<>>
    /\ cursor = [cycle_idx |-> 0, i |-> 0]
    /\ sent = <<>>

\* No request served yet, nothing displayed yet.
NoResponse == [none |-> TRUE]
NotClassified == [soh |-> NaN, shown |-> <<>>, alerted |-> <<>>]

Init ==
    /\ InitListener
    /\ health_history = <<>>
    /\ response = NoResponse
    /\ divided = 0
    /\ classified = NotClassified
    /\ NotStreaming

\* A simulator's messages arrive in any order; the model answers every row.
Deliver == \E msg \in Published, est \in ModelWorks : on_message(msg, est, TRUE)

Next == Deliver

Spec == Init /\ [][Next]_vars

\* A simulator's messages arrive in any order; the model may fail on a row.
DeliverModelMayFail ==
    \E msg \in Published, est \in ModelWorks \cup ModelFails : on_message(msg, est, TRUE)

NextModelFails == DeliverModelMayFail

SpecModelFails == Init /\ [][NextModelFails]_vars

\* Any message may arrive; the model answers every row.
DeliverAny ==
    \E msg \in Published \cup Malformed, est \in ModelWorks : on_message(msg, est, TRUE)

NextMalformed == DeliverAny

SpecMalformed == Init /\ [][NextMalformed]_vars

\* A simulator's messages arrive in any order; the model answers every row;
\* printing an alert may fail.
DeliverAlertMayFail ==
    \E msg \in Published, est \in ModelWorks, alert_ok \in BOOLEAN :
        on_message(msg, est, alert_ok)

NextAlertFails == DeliverAlertMayFail

SpecAlertFails == Init /\ [][NextAlertFails]_vars

----------------------------------------------------------------------------
(* cloud_listener.py: on_message statement by statement, as client.loop_forever()
   runs it: the thread that reads the connection is the thread that calls
   on_message, so the next message is taken when the call has returned. *)

\* Variant: each message is handled on a thread of its own.
CanDispatch_Concurrent(calls) == TRUE

\* loop_forever() calls on_message when no call of it is in progress.
CanDispatch(calls) == calls = <<>>

\* The locals of a call of on_message that has reached model.predict.
Frame(payload, df_temp) ==
    [payload |-> payload, df_temp |-> df_temp, at |-> "predict",
     prediction |-> NaN, soh_ai |-> NaN]

RemoveAt(seq, k) == SubSeq(seq, 1, k - 1) \o SubSeq(seq, k + 1, Len(seq))

\* The broker delivers a published message to the client's connection.
Arrive ==
    \E msg \in Published :
        /\ Len(received) + Len(inbox) < MaxMsgs
        /\ inbox' = Append(inbox, msg)
        /\ UNCHANGED <<listener_vars, handling, evaluations, api_vars, classified,
                       streamer_vars>>

\* Lines 115-146: the next message is decoded; at a change of cycle with a
\* non-empty buffer the features are computed and the call reaches
\* model.predict; otherwise lines 168-172 run and the call returns.
Dispatch ==
    /\ listening
    /\ inbox # <<>>
    /\ CanDispatch(handling)
    /\ LET msg      == Head(inbox)
           payload  == JsonLoads(msg)
           cycle_id == payload.cycle_id
           evaluate == CycleChanged(last_cycle_id, cycle_id)
                       /\ ShouldEvaluate(current_cycle_data)
       IN  /\ inbox' = Tail(inbox)
           /\ received' = Append(received, msg)
           /\ latest' = Found(NotCalled)
           /\ IF evaluate
              THEN /\ handling' = Append(handling, Frame(payload, current_cycle_data))
                   /\ outcome' = "running"
                   /\ UNCHANGED <<current_cycle_data, last_cycle_id>>
              ELSE /\ current_cycle_data' =
                          Append(BufferForAppend(last_cycle_id, cycle_id,
                                                 current_cycle_data), payload)
                   /\ last_cycle_id' = NextLastCycleId(last_cycle_id, cycle_id)
                   /\ outcome' = "returned"
                   /\ UNCHANGED handling
    /\ UNCHANGED <<diagnoses, alerts, predict_calls, listening, evaluations,
                   api_vars, classified, streamer_vars>>

\* Lines 149-162: model.predict returns and the diagnosis is printed.
PredictReturns ==
    \E k \in 1..Len(handling), est \in ModelWorks :
        /\ handling[k].at = "predict"
        /\ predict_calls' = Append(predict_calls, input_features(handling[k].df_temp))
        /\ diagnoses' = Append(diagnoses,
               Diagnosis(last_cycle_id, handling[k].df_temp, est.value))
        /\ handling' = [handling EXCEPT
               ![k].at = "alert",
               ![k].prediction = est.value,
               ![k].soh_ai = Diagnosis(last_cycle_id, handling[k].df_temp, est.value).soh]
        /\ UNCHANGED <<current_cycle_data, last_cycle_id, alerts, listening, received,
                       latest, outcome, inbox, evaluations, api_vars, classified,
                       streamer_vars>>

\* Line 165: send_alert is called on the SoH.
AlertSent ==
    \E k \in 1..Len(handling) :
        /\ handling[k].at = "alert"
        /\ alerts' = alerts \o send_alert(handling[k].soh_ai)
        /\ evaluations' = Append(evaluations,
               [features   |-> input_features(handling[k].df_temp),
                prediction |-> handling[k].prediction,
                soh        |-> handling[k].soh_ai,
                alert      |-> send_alert(handling[k].soh_ai)])
        /\ handling' = [handling EXCEPT ![k].at = "reset"]
        /\ UNCHANGED <<current_cycle_data, last_cycle_id, diagnoses, predict_calls,
                       listening, received, latest, outcome, inbox, api_vars,
                       classified, streamer_vars>>

\* Lines 168-172: the buffer is reset, the message appended, the cycle adopted,
\* and the call returns.
Finish ==
    \E k \in 1..Len(handling) :
        /\ handling[k].at = "reset"
        /\ current_cycle_data' = Append(<<>>, handling[k].payload)
        /\ last_cycle_id' = handling[k].payload.cycle_id
        /\ outcome' = "returned"
        /\ handling' = RemoveAt(handling, k)
        /\ UNCHANGED <<diagnoses, alerts, predict_calls, listening, received, latest,
                       inbox, evaluations, api_vars, classified, streamer_vars>>

NextLoop == Arrive \/ Dispatch \/ PredictReturns \/ AlertSent \/ Finish

SpecLoop == Init /\ [][NextLoop]_vars

----------------------------------------------------------------------------
(* battery_streamer.py: run_simulator *)

\* Entries of the data file at most.
MaxEntries == 3

\* The measurement arrays of an entry, as sequences of rows.
Measurements ==
    LET rows == { r \in Readings : r.Time # Float(10, 1) }
    IN  {<<>>} \cup { <<a>> : a \in rows } \cup { <<a, b>> : a \in rows, b \in rows }

\* The entries of the data file: discharge cycles, charge cycles, impedance
\* measurements.
Entries ==
    { [type |-> "discharge", data |-> m] : m \in Measurements }
    \cup { [type |-> "charge", data |-> <<CHOOSE r \in Readings : r.Time = Float(10, 1)>>],
           [type |-> "impedance", data |-> <<>>] }

DataFiles == UNION { [1..n -> Entries] : n \in 0..MaxEntries }

\* Variant: every entry is published, whatever its type.
IsDischarge_AnyType(entry) == TRUE

\* "entry["type"][0] == "discharge""
IsDischarge(entry) == entry.type = "discharge"

\* The entry the outer loop is at; cycle_idx counts from 0.
Entry == data[cursor.cycle_idx + 1]

\* Lines 141-177: the next row of a discharge cycle is published.
publish ==
    /\ cursor.cycle_idx < Len(data)
    /\ IsDischarge(Entry)
    /\ cursor.i < Len(Entry.data)
    /\ sent' = Append(sent,
           JsonDumps(Payload(cursor.cycle_idx, cursor.i, Entry.data[cursor.i + 1])))
    /\ cursor' = [cursor EXCEPT !.i = cursor.i + 1]
    /\ UNCHANGED <<data, listener_vars, loop_vars, api_vars, classified>>

\* Lines 125-126: the outer loop goes on to the next entry, when the rows of a
\* discharge cycle are used up or the entry is no discharge cycle.
next_entry ==
    /\ cursor.cycle_idx < Len(data)
    /\ IsDischarge(Entry) => cursor.i = Len(Entry.data)
    /\ cursor' = [cycle_idx |-> cursor.cycle_idx + 1, i |-> 0]
    /\ UNCHANGED <<data, sent, listener_vars, loop_vars, api_vars, classified>>

InitStreamer ==
    /\ InitListener
    /\ health_history = <<>>
    /\ response = NoResponse
    /\ divided = 0
    /\ classified = NotClassified
    /\ data \in DataFiles
    /\ cursor = [cycle_idx |-> 0, i |-> 0]
    /\ sent = <<>>

NextStreamer == publish \/ next_entry

SpecStreamer == InitStreamer /\ [][NextStreamer]_vars

----------------------------------------------------------------------------
(* train_model_rf.py: the features the capacity model is trained on *)

RECURSIVE SeqSum(_)
SeqSum(xs) == IF xs = <<>> THEN Float(0, 1) ELSE FAdd(Head(xs), SeqSum(Tail(xs)))

\* np.mean of an array.
np_mean(xs) == FDiv(SeqSum(xs), Float(Len(xs), 1))

\* One row of the training set, from the dataset rows of one discharge cycle
\* (prepare_ml_data, lines 105-146).
prepare_ml_data(rows) ==
    LET v   == [k \in 1..Len(rows) |-> rows[k].Voltage_measured]
        i   == [k \in 1..Len(rows) |-> rows[k].Current_measured]
        t   == [k \in 1..Len(rows) |-> rows[k].Time]
        res == [k \in 1..Len(rows) |-> FDiv(v[k], FAbs(i[k]))]
    IN  [avg_resistance |-> np_mean(res),
         duration       |-> FSub(t[Len(t)], t[1]),
         avg_voltage    |-> np_mean(v)]

\* X = df[["avg_resistance", "duration", "avg_voltage"]] (line 191)
X_columns == <<"avg_resistance", "duration", "avg_voltage">>

----------------------------------------------------------------------------
(* api_server.py: GET /forecast *)

\* Rows the table may hold at most.
MaxRows == 6

\* The (cycle_id, soh) of a first or last row.
HistoryRows ==
    { [cycle_id |-> c, soh |-> v] :
        c \in {1, 4, 5},
        v \in {Float(100, 1), Float(90, 1), Float(85, 1), Float(75, 1)} }

\* The (cycle_id, soh) of the rows between the first and the last.
MiddleRows == { [cycle_id |-> 3, soh |-> Float(95, 1)], [cycle_id |-> 9, soh |-> Float(50, 1)] }

Row(c, v) == [cycle_id |-> c, soh |-> Float(v, 1)]

\* The contents the table may have when a forecast is asked for.
Histories ==
    {<<>>}
    \cup { <<f>> : f \in HistoryRows }
    \cup { <<f>> \o [k \in 1..(n - 2) |-> m] \o <<l>> :
             f \in HistoryRows, l \in HistoryRows, m \in MiddleRows, n \in 2..MaxRows }
    \cup { <<Row(1, 100), Row(2, 95), Row(3, 90), Row(4, 85), Row(5, 80)>>,
           <<Row(1, 90), Row(2, 92), Row(3, 93), Row(4, 94), Row(5, 95)>>,
           <<Row(1, 100), Row(2, 95), Row(3, 90), Row(4, 85)>> }

\* Variant: four rows are enough.
TooFewRows_Four(df) == Len(df) < 4

\* "len(df) < 5"
TooFewRows(df) == Len(df) < 5

\* Variant: the span is not tested.
NoSpan_Unchecked(total_cycles) == FALSE

\* "total_cycles == 0"
NoSpan(total_cycles) == total_cycles = 0

\* Variant: only a negative rate is stable.
IsStable_Negative(deg_rate) == FLt(deg_rate, Float(0, 1))

\* "deg_rate <= 0"
IsStable(deg_rate) == FLe(deg_rate, Float(0, 1))

Max(a, b) == IF a >= b THEN a ELSE b

\* Variant: without max(0, ...).
rul_cycles_Unclamped(remaining_soh, deg_rate) == Trunc(FDiv(remaining_soh, deg_rate))

\* "max(0, int(remaining_soh / deg_rate))"
rul_cycles(remaining_soh, deg_rate) == Max(0, Trunc(FDiv(remaining_soh, deg_rate)))

\* What the request returns when int() raises on a value that is not finite.
InternalServerError == [status |-> 500]

\* Variant: the trend starts at the row after the first.
first_soh_Second(df) == df[2].soh

\* "df["soh"].iloc[0]"
first_soh(df) == df[1].soh

\* "df["soh"].iloc[-1]"
last_soh(df) == df[Len(df)].soh

\* "df["cycle_id"].iloc[-1] - df["cycle_id"].iloc[0]"
total_cycles(df) == df[Len(df)].cycle_id - df[1].cycle_id

\* The body of get_rul_forecast on the rows read from the table.
Forecast(df) ==
    IF TooFewRows(df) THEN [error |-> "not enough data for forecast"]
    ELSE IF NoSpan(total_cycles(df)) THEN [error |-> "Berechnung noch nicht möglich"]
    ELSE
      LET deg_rate == FDiv(FSub(first_soh(df), last_soh(df)), Float(total_cycles(df), 1))
      IN  IF IsStable(deg_rate)
          THEN [prediction          |-> "Stable",
                remaining_cycles    |-> "Infinite",
                estimated_end_cycle |-> "N/A"]
          ELSE
            LET remaining_soh == FSub(last_soh(df), Float(80, 1))
            IN  IF ~IsFinite(FDiv(remaining_soh, deg_rate))
                THEN InternalServerError
                ELSE [deg_rate_per_cycle  |-> Round4(deg_rate),
                      remaining_cycles    |-> rul_cycles(remaining_soh, deg_rate),
                      estimated_end_cycle |->
                          df[Len(df)].cycle_id + rul_cycles(remaining_soh, deg_rate)]

\* The divisions get_rul_forecast makes on the rows read: none before the two
\* early returns, line 112 after them, line 123 when the rate is positive.
Divisions(df) ==
    IF TooFewRows(df) THEN 0
    ELSE IF NoSpan(total_cycles(df)) THEN 0
    ELSE IF IsStable(FDiv(FSub(first_soh(df), last_soh(df)), Float(total_cycles(df), 1)))
         THEN 1 ELSE 2

get_rul_forecast ==
    /\ response' = Forecast(health_history)
    /\ divided' = Divisions(health_history)
    /\ UNCHANGED <<health_history, listener_vars, classified, loop_vars, streamer_vars>>

InitForecast ==
    /\ InitListener
    /\ health_history \in Histories
    /\ response = NoResponse
    /\ divided = 0
    /\ classified = NotClassified
    /\ NotStreaming

NextForecast == get_rul_forecast

SpecForecast == InitForecast /\ [][NextForecast]_vars

----------------------------------------------------------------------------
(* dashboard.py: the status indicator, and the listener's alert, for one SoH *)

\* SoH values looked at, in hundredths of a percent.
SohFrom == 7990
SohTo == 9010
SohInputs == { Float(n, 100) : n \in SohFrom..SohTo }

\* The status text of dashboard.py:91-99.
\* Variant: the thresholds of the comment above the code, "Healthy: SoH > 90".
status_text_AsCommented(soh) ==
    IF FGt(soh, Float(90, 1)) THEN "Healthy"
    ELSE IF FGt(soh, Float(80, 1)) THEN "Warning - Check Soon"
         ELSE "Maintenance Required"

status_text(soh) ==
    IF FGe(soh, Float(90, 1)) THEN "Healthy"
    ELSE IF FGt(soh, Float(80, 1)) THEN "Warning - Check Soon"
         ELSE "Maintenance Required"

\* Whether the critical banner of dashboard.py:158-161 is shown.
critical_alert(soh) == FLe(soh, Float(80, 1))

InitStatus ==
    /\ InitListener
    /\ health_history = <<>>
    /\ response = NoResponse
    /\ divided = 0
    /\ classified \in { [soh |-> v, shown |-> <<>>, alerted |-> <<>>] : v \in SohInputs }
    /\ NotStreaming

\* The dashboard renders the status of the SoH.
RenderStatus ==
    /\ classified.shown = <<>>
    /\ classified' = [classified EXCEPT !.shown =
           <<[status_text    |-> status_text(classified.soh),
              critical_alert |-> critical_alert(classified.soh)]>>]
    /\ UNCHANGED <<listener_vars, api_vars, loop_vars, streamer_vars>>

\* The listener calls send_alert on the SoH.
CallSendAlert ==
    /\ classified.alerted = <<>>
    /\ classified' = [classified EXCEPT !.alerted = <<send_alert(classified.soh)>>]
    /\ UNCHANGED <<listener_vars, api_vars, loop_vars, streamer_vars>>

NextStatus == RenderStatus \/ CallSendAlert

SpecStatus == InitStatus /\ [][NextStatus]_vars

----------------------------------------------------------------------------
(* Vocabulary of the properties *)

Handled == Len(received) > 0
LastMsg == received[Len(received)]
LastObj == JsonLoads(LastMsg)

\* The latest on_message ran to its end.
Returned == Handled /\ outcome = "returned"

\* The cycle ids of the messages received, in arrival order.
Ids == [i \in 1..Len(received) |-> JsonLoads(received[i]).cycle_id]

\* Every cycle id arrives as one contiguous block.
Contiguous(ids) ==
    \A i, j, k \in 1..Len(ids) : (i < j /\ j < k /\ ids[i] = ids[k]) => ids[j] = ids[i]

\* The cycle ids of a sequence, one per block, in arrival order.
RECURSIVE Blocks(_)
Blocks(ids) ==
    IF Len(ids) <= 1 THEN ids
    ELSE IF ids[1] = ids[2] THEN Blocks(Tail(ids))
         ELSE <<ids[1]>> \o Blocks(Tail(ids))

\* What the latest on_message printed and asked of the model.
NewDiagnoses == Len(diagnoses) - latest.n_diagnoses
NewAlerts == Len(alerts) - latest.n_alerts
NewPredictCalls == Len(predict_calls) - latest.n_predict_calls

\* The latest message carried a cycle id other than the one the handler found.
AtBoundary ==
    /\ Handled
    /\ latest.last_cycle_id # None
    /\ LastObj.cycle_id # latest.last_cycle_id

----------------------------------------------------------------------------
(* Properties of the aggregation *)

\* C1: when the K distinct cycle ids of the samples received so far arrived in
\* contiguous blocks, the handler has evaluated exactly K-1 cycles: the first
\* K-1 blocks, in arrival order, and not the block still open.
C1_EmitsKMinusOne ==
    (Handled /\ Contiguous(Ids)) =>
        LET K == Cardinality({ Ids[i] : i \in 1..Len(Ids) })
            b == Blocks(Ids)
        IN  /\ Len(predict_calls) = K - 1
            /\ Len(diagnoses) = K - 1
            /\ \A i \in 1..(K - 1) : diagnoses[i].cycle_id = b[i]
            /\ \A i \in 1..Len(diagnoses) : diagnoses[i].cycle_id # b[K]

C1_Witness ==
    /\ Len(received) = 3
    /\ Contiguous(Ids)
    /\ Ids = <<1, 0, 2>>
    /\ Len(diagnoses) = 2
    /\ Len(predict_calls) = 2

\* C2: after a step whose sample carried a cycle id other than last_cycle_id,
\* the buffer holds exactly that sample and last_cycle_id is its cycle id.
C2_BoundaryResetsBuffer ==
    (Returned /\ AtBoundary) =>
        /\ current_cycle_data = <<LastObj>>
        /\ last_cycle_id = LastObj.cycle_id

C2_Witness ==
    /\ Returned
    /\ AtBoundary
    /\ Len(latest.current_cycle_data) = 2
    /\ current_cycle_data = <<LastObj>>

\* The samples of the block that ended just before the latest message: the
\* longest run of equal cycle ids at the end of the earlier messages.
RECURSIVE Run(_)
Run(msgs) ==
    IF Len(msgs) <= 1 THEN [i \in 1..Len(msgs) |-> JsonLoads(msgs[i])]
    ELSE LET front == SubSeq(msgs, 1, Len(msgs) - 1)
             last  == JsonLoads(msgs[Len(msgs)])
         IN  IF JsonLoads(front[Len(front)]).cycle_id = last.cycle_id
             THEN Append(Run(front), last)
             ELSE <<last>>

ClosedBlock == Run(SubSeq(received, 1, Len(received) - 1))

\* C3: the feature vector produced at a boundary carries the id of the cycle
\* being closed and is computed over the samples of that cycle only, the
\* sample that triggered the boundary excluded.
C3_FeaturesOfClosedCycle ==
    (Returned /\ AtBoundary) =>
        /\ NewDiagnoses = 1
        /\ NewPredictCalls = 1
        /\ diagnoses[Len(diagnoses)].cycle_id = latest.last_cycle_id
        /\ diagnoses[Len(diagnoses)].cycle_id = ClosedBlock[1].cycle_id
        /\ predict_calls[Len(predict_calls)] = input_features(ClosedBlock)
        /\ diagnoses[Len(diagnoses)].avg_res = avg_res(ClosedBlock)
        /\ diagnoses[Len(diagnoses)].duration = duration(ClosedBlock)

C3_Witness ==
    /\ Returned
    /\ AtBoundary
    /\ Len(ClosedBlock) = 2
    /\ ClosedBlock[1] # ClosedBlock[2]
    /\ NewDiagnoses = 1
    /\ predict_calls[Len(predict_calls)] # input_features(Append(ClosedBlock, LastObj))

\* C4: the first sample (last_cycle_id unset) is buffered and its cycle id
\* adopted; no feature vector, no call of the model and no alert come of it.
C4_FirstSampleAdopted ==
    (Returned /\ latest.last_cycle_id = None) =>
        /\ last_cycle_id = LastObj.cycle_id
        /\ current_cycle_data = <<LastObj>>
        /\ NewDiagnoses = 0 /\ diagnoses = <<>>
        /\ NewPredictCalls = 0 /\ predict_calls = <<>>
        /\ NewAlerts = 0 /\ alerts = <<>>

C4_Witness ==
    /\ Returned
    /\ latest.last_cycle_id = None
    /\ last_cycle_id = 2
    /\ Len(current_cycle_data) = 1

\* C5: a sample of the running cycle is appended at the end of the buffer;
\* last_cycle_id stays, and no feature vector, call of the model or alert
\* comes of it.
C5_SameCycleAppends ==
    (Returned /\ latest.last_cycle_id # None
              /\ LastObj.cycle_id = latest.last_cycle_id) =>
        /\ current_cycle_data = Append(latest.current_cycle_data, LastObj)
        /\ last_cycle_id = latest.last_cycle_id
        /\ NewDiagnoses = 0
        /\ NewPredictCalls = 0
        /\ NewAlerts = 0

C5_Witness ==
    /\ Returned
    /\ latest.last_cycle_id # None
    /\ LastObj.cycle_id = latest.last_cycle_id
    /\ Len(current_cycle_data) = 2
    /\ Len(diagnoses) = 1

----------------------------------------------------------------------------
(* Properties of failure handling *)

\* The latest on_message called model.predict and it raised or returned a
\* value that is not finite.
EstimatorFailed ==
    /\ Handled
    /\ latest.predict.called
    /\ (latest.predict.result.raises \/ ~IsFinite(latest.predict.result.value))

\* C6: when the model raises or returns a non-finite value for the cycle being
\* closed, no diagnosis is reported for that cycle, and the buffer and
\* last_cycle_id are as after any boundary: the buffer holds the first sample of
\* the next cycle only and last_cycle_id is the next cycle's id.
C6_FailureSkipsCycle ==
    EstimatorFailed =>
        /\ NewDiagnoses = 0
        /\ current_cycle_data = <<LastObj>>
        /\ last_cycle_id = LastObj.cycle_id

\* The model has failed for some cycle of this run.
EstimatorEverFailed ==
    \/ EstimatorFailed
    \/ \E i \in 1..Len(diagnoses) : ~IsFinite(diagnoses[i].prediction)

\* C7: after the model has failed for one cycle the listener keeps taking
\* messages, and a cycle closed afterwards is evaluated over its own samples.
C7_IngestionContinues ==
    EstimatorEverFailed =>
        /\ listening
        /\ (Returned /\ AtBoundary /\ NewPredictCalls = 1) =>
               predict_calls[Len(predict_calls)] = input_features(ClosedBlock)

\* The keys of a telemetry payload.
RequiredKeys ==
    {"cycle_id", "step", "voltage", "current", "internal_resistance", "temp",
     "timestamp_s"}

IsMalformed(msg) ==
    \/ ~Decodes(msg)
    \/ ~(RequiredKeys \subseteq DOMAIN JsonLoads(msg))

\* C8: a malformed message is dropped: it changes neither the buffer nor
\* last_cycle_id, nothing is reported for it, and the listener goes on to the
\* next message.
C8_MalformedDropped ==
    (Handled /\ IsMalformed(LastMsg)) =>
        /\ current_cycle_data = latest.current_cycle_data
        /\ last_cycle_id = latest.last_cycle_id
        /\ NewDiagnoses = 0
        /\ listening

----------------------------------------------------------------------------
(* Properties of the order of cycles *)

\* The latest message carried the id of a cycle closed earlier, which is not
\* the cycle that was running.
Regression ==
    /\ AtBoundary
    /\ \E i \in 1..latest.n_diagnoses : diagnoses[i].cycle_id = LastObj.cycle_id

\* C9, as stated: a sample carrying the id of a cycle closed earlier is appended
\* to the open buffer; it closes nothing, nothing is reported, and last_cycle_id
\* keeps the id of the running cycle.
C9_RegressionAppended ==
    (Returned /\ Regression) =>
        /\ current_cycle_data = Append(latest.current_cycle_data, LastObj)
        /\ last_cycle_id = latest.last_cycle_id
        /\ NewDiagnoses = 0

\* C9, amended: a sample carrying the id of a cycle closed earlier is a boundary
\* like any other change of cycle id: the running cycle is closed and
\* evaluated, the buffer then holds that sample only, and last_cycle_id is the
\* id it carried.
C9_RegressionIsBoundary ==
    (Returned /\ Regression) =>
        /\ NewDiagnoses = 1
        /\ NewPredictCalls = 1
        /\ diagnoses[Len(diagnoses)].cycle_id = latest.last_cycle_id
        /\ current_cycle_data = <<LastObj>>
        /\ last_cycle_id = LastObj.cycle_id

C9_Witness ==
    /\ Returned
    /\ Regression
    /\ Ids = <<0, 1, 0>>
    /\ Len(diagnoses) = 2
    /\ last_cycle_id = 0

NonDecreasing(ids) == \A i, j \in 1..Len(ids) : i < j => ids[i] <= ids[j]

\* C10: the buffer holds samples of one cycle only, the cycle last_cycle_id
\* names; and while cycle ids arrive in non-decreasing order, a cycle that has
\* been closed is never the running cycle again and is evaluated once only.
C10_ClosedNeverReopened ==
    Handled =>
        /\ \A i \in 1..Len(current_cycle_data) :
               current_cycle_data[i].cycle_id = last_cycle_id
        /\ NonDecreasing(Ids) =>
               /\ \A i \in 1..Len(diagnoses) : diagnoses[i].cycle_id # last_cycle_id
               /\ \A i, j \in 1..Len(diagnoses) :
                      i < j => diagnoses[i].cycle_id # diagnoses[j].cycle_id
               /\ Len(predict_calls) = Len(diagnoses)

C10_Witness ==
    /\ NonDecreasing(Ids)
    /\ Ids = <<0, 1, 2>>
    /\ Len(diagnoses) = 2
    /\ last_cycle_id = 2

----------------------------------------------------------------------------
(* Properties of the health evaluation *)

\* The three classes of a SoH value.
IsCritical(soh) == FLe(soh, Float(80, 1))
IsWarning(soh) == FGt(soh, Float(80, 1)) /\ FLt(soh, Float(90, 1))
IsHealthy(soh) == FGe(soh, Float(90, 1))

\* The alert send_alert printed for the SoH looked at, and the status shown.
AlertLevelIs(level) ==
    /\ classified.alerted # <<>>
    /\ classified.alerted[1] # <<>>
    /\ classified.alerted[1][1].level = level
NoAlert == classified.alerted # <<>> /\ classified.alerted[1] = <<>>
StatusShownIs(text) ==
    classified.shown # <<>> /\ classified.shown[1].status_text = text

Evaluated == Handled /\ AtBoundary /\ NewDiagnoses = 1
LastDiagnosis == diagnoses[Len(diagnoses)]

\* C12: an evaluated cycle gets an alert exactly when its SoH is below 90
\* (Critical or Warning): one alert, with that SoH and the level of its class;
\* a Healthy cycle gets none.
C12_AlertIffBelowNinety ==
    /\ (Returned /\ Evaluated) =>
          LET soh == LastDiagnosis.soh
          IN  /\ NewAlerts = (IF FLt(soh, Float(90, 1)) THEN 1 ELSE 0)
              /\ NewAlerts = 1 =>
                    /\ alerts[Len(alerts)].soh = soh
                    /\ alerts[Len(alerts)].level =
                           (IF IsCritical(soh) THEN "ALERT" ELSE "WARNING")
              /\ IsHealthy(soh) => NewAlerts = 0
    /\ (Handled /\ NewDiagnoses = 0) => NewAlerts = 0
    /\ Len(alerts) =
           Cardinality({ i \in 1..Len(diagnoses) : FLt(diagnoses[i].soh, Float(90, 1)) })

C12_Witness ==
    /\ Returned
    /\ Evaluated
    /\ Len(diagnoses) = 2
    /\ IsHealthy(diagnoses[1].soh)
    /\ IsWarning(diagnoses[2].soh)
    /\ alerts = <<[level |-> "WARNING", soh |-> diagnoses[2].soh]>>

\* C13: an alert leaves the buffer and last_cycle_id as a boundary without
\* alert leaves them, and a failure to deliver the alert neither keeps the
\* buffer from being reset and the new cycle from being adopted nor fails the
\* handler.
C13_AlertLeavesStateAlone ==
    (Evaluated /\ send_alert(LastDiagnosis.soh) # <<>>) =>
        /\ outcome = "returned"
        /\ listening
        /\ current_cycle_data = <<LastObj>>
        /\ last_cycle_id = LastObj.cycle_id

\* The feature of a closed cycle that goes by a training column's name.
FeatureNamed(column, df) ==
    CASE column = "avg_resistance" -> avg_res(df)
      [] column = "duration"       -> duration(df)
      [] column = "avg_voltage"    -> avg_v(df)

\* C14: an evaluation calls the model once, with one row that holds the
\* features of the closed cycle in the order of the training columns:
\* average resistance, duration, average voltage.
C14_FeatureOrder ==
    /\ Len(predict_calls) = Len(diagnoses)
    /\ (Returned /\ Evaluated) =>
          /\ NewPredictCalls = 1
          /\ X_columns = <<"avg_resistance", "duration", "avg_voltage">>
          /\ Len(predict_calls[Len(predict_calls)]) = Len(X_columns)
          /\ \A k \in 1..Len(X_columns) :
                 predict_calls[Len(predict_calls)][k] = FeatureNamed(X_columns[k], ClosedBlock)

C14_Witness ==
    /\ Returned
    /\ Evaluated
    /\ Len(ClosedBlock) = 2
    /\ predict_calls[Len(predict_calls)] = <<Float(7, 4), Float(10, 1), Float(7, 2)>>

\* What one sample adds to the resistance sum: V/|I| above 0.01 A, else 0.
Contribution(p) ==
    IF FGt(FAbs(p.current), Float(1, 100))
    THEN FDiv(p.voltage, FAbs(p.current))
    ELSE Float(0, 1)

AboveFloor(p) == FGt(FAbs(p.current), Float(1, 100))

\* C15: in the average resistance of a closed cycle a sample at or below
\* 0.01 A counts as 0 and still counts in the denominator; a cycle whose samples
\* are all at or below 0.01 A has average resistance 0, and the average is
\* always a number.
C15_NoiseFloor ==
    (Returned /\ Evaluated) =>
        LET blk == ClosedBlock
            contributions == [k \in 1..Len(blk) |-> Contribution(blk[k])]
        IN  /\ IsFinite(LastDiagnosis.avg_res)
            /\ \A k \in 1..Len(blk) :
                   ~AboveFloor(blk[k]) => blk[k].internal_resistance = Float(0, 1)
            /\ LastDiagnosis.avg_res = FDiv(SeqSum(contributions), Float(Len(blk), 1))
            /\ (\A k \in 1..Len(blk) : ~AboveFloor(blk[k])) =>
                   LastDiagnosis.avg_res = Float(0, 1)

C15_Witness ==
    /\ Returned
    /\ Evaluated
    /\ Len(ClosedBlock) = 2
    /\ AboveFloor(ClosedBlock[1])
    /\ ~AboveFloor(ClosedBlock[2])
    /\ ClosedBlock[2].current = Float(1, 100)
    /\ LastDiagnosis.avg_res = Float(1, 1)

\* The dataset row a published sample was made from.
RowOf(p) == CHOOSE r \in Readings : Payload(p.cycle_id, p.step, r) = p

\* C16: when every sample of the closed cycle is above 0.01 A, its average
\* resistance is the mean of V/|I| over its samples, which is what the training
\* computes from the rows of that cycle.
C16_MeanResistance ==
    (Returned /\ Evaluated /\ \A k \in 1..Len(ClosedBlock) : AboveFloor(ClosedBlock[k])) =>
        LET blk == ClosedBlock
            ratios == [k \in 1..Len(blk) |-> FDiv(blk[k].voltage, FAbs(blk[k].current))]
            rows == [k \in 1..Len(blk) |-> RowOf(blk[k])]
        IN  /\ LastDiagnosis.avg_res = np_mean(ratios)
            /\ LastDiagnosis.avg_res = prepare_ml_data(rows).avg_resistance
            /\ predict_calls[Len(predict_calls)][1] = prepare_ml_data(rows).avg_resistance

C16_Witness ==
    /\ Returned
    /\ Evaluated
    /\ Len(ClosedBlock) = 2
    /\ AboveFloor(ClosedBlock[1]) /\ AboveFloor(ClosedBlock[2])
    /\ ClosedBlock[1].internal_resistance # ClosedBlock[2].internal_resistance
    /\ LastDiagnosis.avg_res = Float(7, 4)

----------------------------------------------------------------------------
(* The forecaster *)

\* A forecast request has been answered.
Answered == "none" \notin DOMAIN response

FirstRow == health_history[1]
LastRow == health_history[Len(health_history)]

\* The span and the rate of the stored series, as the contract defines them.
TotalCycles == LastRow.cycle_id - FirstRow.cycle_id
DegRate == FDiv(FSub(FirstRow.soh, LastRow.soh), Float(TotalCycles, 1))

\* The largest integer not above a finite value.
Floor(a) == a[1] \div a[2]

IsErrorResult == DOMAIN response = {"error"}
IsNumericForecast ==
    /\ "remaining_cycles" \in DOMAIN response
    /\ "prediction" \notin DOMAIN response
Crashed == response = InternalServerError

ExampleDegrading == <<Row(1, 100), Row(2, 95), Row(3, 90), Row(4, 85), Row(5, 80)>>
ExampleImproving == <<Row(1, 90), Row(2, 92), Row(3, 93), Row(4, 94), Row(5, 95)>>

\* C17: a forecast over fewer than 5 stored points, the empty series included,
\* is answered with the not-enough-data error result: the request does not
\* crash, divides nothing and returns no numeric forecast.
C17_TooFewPoints ==
    (Answered /\ Len(health_history) < 5) =>
        /\ response = [error |-> "not enough data for forecast"]
        /\ ~Crashed
        /\ ~IsNumericForecast
        /\ divided = 0

\* Four points with a falling SoH, one short of the minimum, have been refused.
C17_Witness ==
    /\ Answered
    /\ health_history = <<Row(1, 100), Row(2, 95), Row(3, 90), Row(4, 85)>>
    /\ IsErrorResult

\* C18: a forecast over at least 5 points whose first and last cycle_id are
\* equal is answered with the undefined-trend error result, and no division
\* has been made.
C18_ZeroSpan ==
    (Answered /\ Len(health_history) >= 5 /\ TotalCycles = 0) =>
        /\ response = [error |-> "Berechnung noch nicht möglich"]
        /\ divided = 0

\* Six points on one cycle id with a falling SoH have been refused.
C18_Witness ==
    /\ Answered
    /\ Len(health_history) = 6
    /\ TotalCycles = 0
    /\ FGt(FirstRow.soh, LastRow.soh)
    /\ IsErrorResult

C20_RemainingCycles ==
    (Answered /\ Len(health_history) >= 5 /\ TotalCycles # 0
              /\ FGt(DegRate, Float(0, 1))) =>
        LET remaining ==
                Max(0, Floor(FDiv(FSub(LastRow.soh, Float(80, 1)), DegRate)))
        IN  /\ IsNumericForecast
            /\ response.remaining_cycles = remaining
            /\ response.remaining_cycles >= 0
            /\ FLt(LastRow.soh, Float(80, 1)) => response.remaining_cycles = 0
            /\ response.estimated_end_cycle = LastRow.cycle_id + remaining
            /\ health_history = ExampleDegrading =>
                   response = [deg_rate_per_cycle  |-> Float(5, 1),
                               remaining_cycles    |-> 0,
                               estimated_end_cycle |-> 5]

\* The degrading series of the contract has been forecast.
C20_Witness ==
    /\ Answered
    /\ health_history = ExampleDegrading
    /\ IsNumericForecast
    /\ response.remaining_cycles = 0

\* Two series with the same first and the same last row.
SameEnds(a, b) == a[1] = b[1] /\ a[Len(a)] = b[Len(b)]

\* The series of at least 5 rows that share the ends of the stored one and
\* differ from it in between.
Siblings ==
    { other \in Histories :
        /\ Len(other) >= 5
        /\ SameEnds(other, health_history)
        /\ other # health_history }

\* C21: the answer to a forecast over at least 5 rows is the answer the
\* forecaster gives on every other series of at least 5 rows with the same
\* first and last (cycle_id, soh), whatever lies between.
C21_OnlyEndsMatter ==
    (Answered /\ Len(health_history) >= 5) =>
        \A other \in Siblings : Forecast(other) = response

\* A numeric forecast has been given on a series that has siblings of another
\* length and with other rows in between.
C21_Witness ==
    /\ Answered
    /\ Len(health_history) = 5
    /\ IsNumericForecast
    /\ \E other \in Siblings : Len(other) = 6 /\ other[2] # health_history[2]

----------------------------------------------------------------------------
(* The result sink *)

\* The columns the query API selects from a health record.
RecordColumns == {"cycle_id", "soh", "avg_resistance", "timestamp"}

\* C22: the store the query API reads holds exactly one record for every
\* cycle that was finished and successfully evaluated, in order, with at least
\* cycle_id, soh, avg_resistance and timestamp, and no other record.
C22_RecordPerEvaluatedCycle ==
    /\ Len(health_history) = Len(diagnoses)
    /\ \A k \in 1..Len(diagnoses) :
          /\ RecordColumns \subseteq DOMAIN health_history[k]
          /\ health_history[k].cycle_id = diagnoses[k].cycle_id
          /\ health_history[k].soh = diagnoses[k].soh
          /\ health_history[k].avg_resistance = diagnoses[k].avg_res

----------------------------------------------------------------------------
(* The order of the statements of on_message *)

\* The calls of on_message whose evaluation (lines 149-165) is under way.
Evaluating == { k \in 1..Len(handling) : handling[k].at \in {"predict", "alert"} }

\* The cycle whose samples a call evaluates.
CycleOf(frame) == frame.df_temp[1].cycle_id

\* The buffer of the evaluated cycle is closed: it is cleared of that cycle's
\* samples and the cycle of the message in hand is adopted.
Closed(frame) ==
    /\ last_cycle_id = frame.payload.cycle_id
    /\ \A j \in 1..Len(current_cycle_data) :
          current_cycle_data[j].cycle_id # CycleOf(frame)

C24_PredictDoesNotBlock ==
    (inbox # <<>> /\ \E k \in 1..Len(handling) : handling[k].at = "predict")
        => ENABLED Dispatch

----------------------------------------------------------------------------
(* The evaluation as a function of its inputs *)

\* C26: two evaluations of the same feature vector with the same estimator
\* output give the same SoH, the same status and the same alert decision, and
\* an evaluation leaves the buffer and last_cycle_id as it found them.
C26_EvaluationIsPure ==
    /\ \A i, j \in 1..Len(evaluations) :
          (/\ evaluations[i].features = evaluations[j].features
           /\ evaluations[i].prediction = evaluations[j].prediction)
          => /\ evaluations[i].soh = evaluations[j].soh
             /\ evaluations[i].alert = evaluations[j].alert
    /\ \A k \in 1..Len(handling) :
          /\ current_cycle_data = handling[k].df_temp
          /\ last_cycle_id = CycleOf(handling[k])

\* Two cycles with the same features and the same prediction have been
\* evaluated, and both raised an alert.
C26_Witness ==
    /\ Len(evaluations) = 2
    /\ diagnoses[1].cycle_id # diagnoses[2].cycle_id
    /\ evaluations[1].features = evaluations[2].features
    /\ evaluations[1].prediction = evaluations[2].prediction
    /\ evaluations[1].alert # <<>>

----------------------------------------------------------------------------
(* The duration feature *)

\* C27: the duration handed to the model and printed for a closed cycle is
\* the elapsed time of the last sample buffered minus that of the first, in
\* the order they arrived; a cycle closed with one sample is evaluated too,
\* with duration 0.
C27_Duration ==
    (Returned /\ AtBoundary) =>
        LET first   == ClosedBlock[1]
            last    == ClosedBlock[Len(ClosedBlock)]
            elapsed == FSub(last.timestamp_s, first.timestamp_s)
        IN  /\ NewPredictCalls = 1
            /\ NewDiagnoses = 1
            /\ predict_calls[Len(predict_calls)][2] = elapsed
            /\ LastDiagnosis.duration = elapsed
            /\ Len(ClosedBlock) = 1 =>
                   predict_calls[Len(predict_calls)][2] = Float(0, 1)

\* A cycle of two samples taken at 10 s and 20 s has been closed.
C27_Witness ==
    /\ Returned
    /\ AtBoundary
    /\ Len(ClosedBlock) = 2
    /\ ClosedBlock[1].timestamp_s = Float(10, 1)
    /\ ClosedBlock[2].timestamp_s = Float(20, 1)
    /\ LastDiagnosis.duration = Float(10, 1)

----------------------------------------------------------------------------
(* The telemetry source *)

SentPayload(k) == JsonLoads(sent[k])

\* C28: in what the simulator has published, the cycle ids never decrease, so
\* each cycle is one contiguous block and the id grows from block to block;
\* within a block step counts 0, 1, 2, ...; every published cycle is a
\* discharge cycle of the data file; every current is >= 0.
C28_SourceOrder ==
    /\ \A j, k \in 1..Len(sent) :
          j < k => SentPayload(j).cycle_id <= SentPayload(k).cycle_id
    /\ \A k \in 1..Len(sent) :
          /\ SentPayload(k).step =
                 Cardinality({ j \in 1..(k - 1) :
                                 SentPayload(j).cycle_id = SentPayload(k).cycle_id })
          /\ SentPayload(k).cycle_id + 1 \in 1..Len(data)
          /\ data[SentPayload(k).cycle_id + 1].type = "discharge"
          /\ FGe(SentPayload(k).current, Float(0, 1))

\* Two discharge cycles of two rows each, with a charge cycle between them and
\* a negative measured current, have been published.
C28_Witness ==
    /\ Len(data) = 3
    /\ data[2].type = "charge"
    /\ Len(sent) = 4
    /\ SentPayload(2).cycle_id = 0
    /\ SentPayload(3).cycle_id = 2
    /\ SentPayload(4).step = 1
    /\ FLt(data[1].data[1].Current_measured, Float(0, 1))

----------------------------------------------------------------------------
(* The state of the buffer between two messages *)

\* C29: when on_message has returned, last_cycle_id is set, the buffer is not
\* empty, its last element is the sample just received, and every sample in
\* it has the cycle id last_cycle_id.
C29_BufferHoldsRunningCycle ==
    Returned =>
        /\ last_cycle_id # None
        /\ Len(current_cycle_data) > 0
        /\ current_cycle_data[Len(current_cycle_data)] = LastObj
        /\ \A j \in 1..Len(current_cycle_data) :
              current_cycle_data[j].cycle_id = last_cycle_id

\* Cycle ids out of order: after a sample of a higher cycle, two samples of a
\* lower one are in the buffer.
C29_Witness ==
    /\ Returned
    /\ Len(received) = 3
    /\ Ids[1] > Ids[2]
    /\ Len(current_cycle_data) = 2
    /\ last_cycle_id = Ids[3]

----------------------------------------------------------------------------
(* The dashboard and the listener *)

====
